---- MODULE Spec2Model ----
(***************************************************************************)
(* A model of the HTTP/2 priority tree of src/src/priority/priority.py.    *)
(*                                                                         *)
(* Stream objects live in a heap, objs, indexed by handle (object          *)
(* identity); handle 1 is PriorityTree._root_stream.  Stream.__eq__ and    *)
(* the ordering methods compare stream ids, not identities, so the two are *)
(* kept apart.  The _streams dict maps stream ids to handles.  Every       *)
(* public method is one action; an exception that escapes a method leaves  *)
(* the mutations made before it in place, exactly as in the code.          *)
(***************************************************************************)
EXTENDS Integers, Sequences, FiniteSets, TLC

\* ------------------------------------------------------------------ bounds
\* Stream ids offered by the driver are 0..MaxId.
MaxId == 3
\* The driver makes at most MaxCalls calls that change the tree (Spec), or
\* at most MaxDeep (SpecDeep).
MaxCalls == 3
MaxDeep == 4
\* The sharing driver makes at most MaxShare calls of next().
MaxShare == 120
\* The scheduling driver makes at most MaxSched calls of next() and at most
\* MaxToggles calls of block and unblock.
MaxSched == 10
MaxToggles == 2

\* ------------------------------------------------------- program constants
\* Python's None as an argument or a return value.
None == -1
\* Python's None as an object reference (Stream.parent of the root).
NoStream == 0
\* Handle of PriorityTree._root_stream.
RootHandle == 1
\* The per-round credit of Stream.schedule.
Credit == 256
\* The hop limit of stream_cycle.
CycleLimit == 100

Ids == 0..MaxId
DependsOn == Ids \cup {None}
\* The weights the driver opens streams with: a legal HTTP/2 weight that
\* does not divide the credit of 256, so that schedule leaves deficits.
Weights == {96}
\* The weight parameter's default (insert_stream and reprioritize).
DefaultWeight == 16

VARIABLES
    objs,      \* Seq of Stream objects, indexed by handle
    streams,   \* PriorityTree._streams: id -> handle, NoStream when absent
    last,      \* the last public call and its outcome
    calls,     \* the number of calls so far that changed the tree
    served,    \* the scheduling drivers' tally: id -> times next() returned it
    pops,      \* the scheduling driver's tally: handle -> times a parent's
               \* schedule popped and re-enqueued the object
    toggles    \* the scheduling driver's count of block and unblock calls

vars == <<objs, streams, last, calls, served, pops, toggles>>

\* Stream.__init__
Stream(stream_id, weight) ==
    [stream_id |-> stream_id, weight |-> weight, children |-> <<>>,
     parent |-> NoStream, child_queue |-> <<>>, active |-> TRUE,
     last_weight |-> 0, deficit |-> 0]

\* --------------------------------------------------- queue.PriorityQueue
\* Entries are <<level, handle>> tuples held in a binary heap (heapq).
\* a tuple comparison that breaks ties towards the larger stream id
ItemLT_larger_id_first(o, a, b) ==
    \/ a[1] < b[1]
    \/ a[1] = b[1] /\ o[a[2]].stream_id > o[b[2]].stream_id

\* Tuple comparison: level first, then Stream.__lt__ on the stream id.
ItemLT(o, a, b) ==
    \/ a[1] < b[1]
    \/ a[1] = b[1] /\ o[a[2]].stream_id < o[b[2]].stream_id

RECURSIVE SiftDown(_, _, _, _, _)
\* heapq._siftdown, positions 1-based
SiftDown(o, heap, startpos, pos, newitem) ==
    IF pos > startpos /\ ItemLT(o, newitem, heap[pos \div 2])
    THEN SiftDown(o, [heap EXCEPT ![pos] = heap[pos \div 2]], startpos,
                  pos \div 2, newitem)
    ELSE [heap EXCEPT ![pos] = newitem]

RECURSIVE SiftUp(_, _, _, _, _)
\* heapq._siftup, positions 1-based
SiftUp(o, heap, startpos, pos, newitem) ==
    LET childpos == 2 * pos
        rightpos == childpos + 1
        c == IF rightpos <= Len(heap) /\ ~ItemLT(o, heap[childpos], heap[rightpos])
             THEN rightpos ELSE childpos
    IN IF childpos <= Len(heap)
       THEN SiftUp(o, [heap EXCEPT ![pos] = heap[c]], startpos, c, newitem)
       ELSE SiftDown(o, [heap EXCEPT ![pos] = newitem], startpos, pos, newitem)

\* PriorityQueue.put
QueuePut(o, heap, item) ==
    SiftDown(o, Append(heap, item), 1, Len(heap) + 1, item)

\* PriorityQueue.get on a non-empty queue: the item returned
QueueHead(heap) == heap[1]

\* PriorityQueue.get on a non-empty queue: the queue left behind
QueueRest(o, heap) ==
    LET lastelt == heap[Len(heap)]
        rest == SubSeq(heap, 1, Len(heap) - 1)
    IN IF rest = <<>> THEN <<>>
       ELSE SiftUp(o, [rest EXCEPT ![1] = lastelt], 1, 1, lastelt)

\* ------------------------------------------------------------ Stream
\* Stream.add_child
add_child(o, self, child) ==
    LET o1 == [o EXCEPT ![child].parent = self]
    IN [o1 EXCEPT ![self].children = Append(@, child),
                  ![self].child_queue =
                      QueuePut(o1, @, <<o1[self].last_weight, child>>)]

RECURSIVE AddChildren(_, _, _, _)
\* the loops "for c in cs: self.add_child(c)", from position i on
AddChildren(o, self, cs, i) ==
    IF i > Len(cs) THEN o
    ELSE AddChildren(add_child(o, self, cs[i]), self, cs, i + 1)

\* add_child_exclusive that forgets to empty self.children and the queue
add_child_exclusive_keeps(o, self, child) ==
    AddChildren(add_child(o, self, child), child, o[self].children, 1)

\* Stream.add_child_exclusive
add_child_exclusive(o, self, child) ==
    LET old_children == o[self].children
        o1 == [o EXCEPT ![self].children = <<>>,
                        ![self].child_queue = <<>>,
                        ![self].last_weight = 0]
        o2 == add_child(o1, self, child)
    IN AddChildren(o2, child, old_children, 1)

\* an operation's outcome: the heap it leaves and the exception it raised
Outcome(o, err) == [o |-> o, err |-> err]

RECURSIVE Rebuild(_, _, _, _)
\* Stream.remove_child, the loop that drains child_queue into new_queue,
\* dropping every entry whose stream equals child (Stream.__eq__: same id)
Rebuild(o, queue, new_queue, child) ==
    IF queue = <<>> THEN new_queue
    ELSE LET item == QueueHead(queue)
         IN Rebuild(o, QueueRest(o, queue),
                    IF o[item[2]].stream_id = o[child].stream_id
                    THEN new_queue ELSE QueuePut(o, new_queue, item),
                    child)

\* list.remove(child): the list without its first element equal to child
ListRemove(o, list, child) ==
    LET hits == {i \in 1..Len(list) : o[list[i]].stream_id = o[child].stream_id}
        first == CHOOSE i \in hits : \A j \in hits : i <= j
    IN SubSeq(list, 1, first - 1) \o SubSeq(list, first + 1, Len(list))

\* whether list.remove(child) finds an element equal to child
ListHas(o, list, child) ==
    \E i \in 1..Len(list) : o[list[i]].stream_id = o[child].stream_id

\* remove_child that restarts the virtual clock with the rebuilt queue
remove_child_resets(o, self, child, strip_children) ==
    IF ~ListHas(o, o[self].children, child) THEN Outcome(o, "ValueError")
    ELSE LET o1 == [o EXCEPT
                 ![self].children = ListRemove(o, @, child),
                 ![self].child_queue = Rebuild(o, @, <<>>, child),
                 ![self].last_weight = 0]
         IN IF ~strip_children THEN Outcome(o1, "ok")
            ELSE IF child = self
                 THEN Outcome(o1, IF o1[self].children = <<>> THEN "ok"
                                  ELSE "NoReturn")
                 ELSE Outcome(AddChildren(o1, self, o1[child].children, 1), "ok")

\* Stream.remove_child.  When child is self, the strip loop iterates over
\* the list it appends to and never ends unless that list is empty.
remove_child(o, self, child, strip_children) ==
    IF ~ListHas(o, o[self].children, child) THEN Outcome(o, "ValueError")
    ELSE LET o1 == [o EXCEPT
                 ![self].children = ListRemove(o, @, child),
                 ![self].child_queue = Rebuild(o, @, <<>>, child)]
         IN IF ~strip_children THEN Outcome(o1, "ok")
            ELSE IF child = self
                 THEN Outcome(o1, IF o1[self].children = <<>> THEN "ok"
                                  ELSE "NoReturn")
                 ELSE Outcome(AddChildren(o1, self, o1[child].children, 1), "ok")

RECURSIVE Reschedule_drops_deficit(_, _, _, _)
\* a finally block that does not carry the deficit into the step
Reschedule_drops_deficit(o, self, popped_streams, i) ==
    IF i > Len(popped_streams) THEN o
    ELSE LET level == popped_streams[i][1]
             child == popped_streams[i][2]
             o1 == [o EXCEPT ![self].last_weight = level]
             step == Credit \div o1[child].weight
             o2 == [o1 EXCEPT ![child].deficit =
                        (Credit + o1[child].deficit) % o1[child].weight]
             o3 == [o2 EXCEPT ![self].child_queue =
                        QueuePut(o2, @, <<level + step, child>>)]
         IN Reschedule_drops_deficit(o3, self, popped_streams, i + 1)

RECURSIVE Reschedule(_, _, _, _)
\* Stream.schedule, the finally block: re-enqueue popped_streams from i on
Reschedule(o, self, popped_streams, i) ==
    IF i > Len(popped_streams) THEN o
    ELSE LET level == popped_streams[i][1]
             child == popped_streams[i][2]
             o1 == [o EXCEPT ![self].last_weight = level]
             step == (Credit + o1[child].deficit) \div o1[child].weight
             o2 == [o1 EXCEPT ![child].deficit =
                        (Credit + o1[child].deficit) % o1[child].weight]
             o3 == [o2 EXCEPT ![self].child_queue =
                        QueuePut(o2, @, <<level + step, child>>)]
         IN Reschedule(o3, self, popped_streams, i + 1)

RECURSIVE schedule(_, _)
RECURSIVE ScheduleLoop(_, _, _)
\* Stream.schedule, the while loop with popped_streams so far; err is
\* "Empty" for queue.Empty, ret the stream id returned
ScheduleLoop(o, self, popped_streams) ==
    IF o[self].child_queue = <<>>
    THEN [o |-> Reschedule(o, self, popped_streams, 1), err |-> "Empty",
          ret |-> None]
    ELSE LET val == QueueHead(o[self].child_queue)
             o1 == [o EXCEPT ![self].child_queue = QueueRest(o, @)]
             popped == Append(popped_streams, val)
             child == val[2]
         IN IF o1[child].active
            THEN [o |-> Reschedule(o1, self, popped, 1), err |-> "ok",
                  ret |-> o1[child].stream_id]
            ELSE LET r == schedule(o1, child)
                 IN IF r.err = "Empty"
                    THEN ScheduleLoop(r.o, self, popped)
                    ELSE [o |-> Reschedule(r.o, self, popped, 1),
                          err |-> r.err, ret |-> r.ret]

\* Stream.schedule
schedule(o, self) ==
    IF o[self].active
    THEN [o |-> o, err |-> "AssertionError", ret |-> None]
    ELSE ScheduleLoop(o, self, <<>>)

\* ------------------------------------------------------- PriorityTree
\* a public method's outcome: heap, _streams, exception raised, value returned
Result(o, st, err, ret) == [o |-> o, st |-> st, err |-> err, ret |-> ret]

\* "not depends_on": None and 0 are both falsy
Falsy(depends_on) == depends_on = None \/ depends_on = 0

\* "key in self._streams"
Has(st, key) == key \in DOMAIN st /\ st[key] # NoStream

\* PriorityTree.__init__: the heap holding only the root stream
InitObjs == << [Stream(0, 1) EXCEPT !.active = FALSE] >>

\* PriorityTree.__init__: _streams = {0: _root_stream}
InitStreams == [i \in Ids |-> IF i = 0 THEN RootHandle ELSE NoStream]

\* insert_stream without the duplicate check: the new Stream replaces the
\* old one in _streams
insert_stream_overwrites(o, st, stream_id, depends_on, weight, exclusive) ==
    LET h == Len(o) + 1
        o1 == Append(o, Stream(stream_id, weight))
        st1 == [st EXCEPT ![stream_id] = h]
        dep == IF Falsy(depends_on) THEN 0 ELSE depends_on
    IN IF exclusive
       THEN IF depends_on = None THEN Result(o, st, "AssertionError", None)
            ELSE IF ~Has(st, depends_on) THEN Result(o, st, "KeyError", None)
            ELSE Result(add_child_exclusive(o1, st[depends_on], h), st1,
                        "ok", None)
       ELSE IF ~Has(st, dep) THEN Result(o, st, "KeyError", None)
            ELSE Result(add_child(o1, st[dep], h), st1, "ok", None)

\* PriorityTree.insert_stream
insert_stream(o, st, stream_id, depends_on, weight, exclusive) ==
    LET h == Len(o) + 1
        o1 == Append(o, Stream(stream_id, weight))
        st1 == [st EXCEPT ![stream_id] = h]
        dep == IF Falsy(depends_on) THEN 0 ELSE depends_on
    IN IF Has(st, stream_id)
       THEN Result(o, st, "DuplicateStreamError", None)
       ELSE IF exclusive
       THEN IF depends_on = None THEN Result(o, st, "AssertionError", None)
            ELSE IF ~Has(st, depends_on) THEN Result(o, st, "KeyError", None)
            ELSE Result(add_child_exclusive(o1, st[depends_on], h), st1,
                        "ok", None)
       ELSE IF ~Has(st, dep) THEN Result(o, st, "KeyError", None)
            ELSE Result(add_child(o1, st[dep], h), st1, "ok", None)

RECURSIVE CycleWalk(_, _, _, _)
\* stream_cycle, the for loop with n iterations left: "True", "False",
\* or the exception raised
CycleWalk(o, node, current, n) ==
    IF n = 0 THEN "PriorityLoop"
    ELSE LET parent == o[node].parent
         IN IF parent = NoStream THEN "AttributeError"
            ELSE IF o[parent].stream_id = o[current].stream_id THEN "True"
            ELSE IF o[parent].stream_id = 0 THEN "False"
            ELSE CycleWalk(o, parent, current, n - 1)

\* PriorityTree.reprioritize.stream_cycle.  A walk of Len(o) hops that has
\* met neither current nor id 0 has visited some object twice and is going
\* round a loop of parent links, so the remaining hops up to CycleLimit
\* cannot end it: the walk is cut at whichever is smaller.
stream_cycle(o, new_parent, current) ==
    CycleWalk(o, new_parent, current,
              IF Len(o) < CycleLimit THEN Len(o) ELSE CycleLimit)

\* PriorityTree.reprioritize, "if cycle:" block
CycleRepair(o, new_parent, current_stream) ==
    IF o[new_parent].parent = NoStream THEN Outcome(o, "AttributeError")
    ELSE LET r == remove_child(o, o[new_parent].parent, new_parent, TRUE)
         IN IF r.err # "ok" THEN r
            ELSE IF r.o[current_stream].parent = NoStream
            THEN Outcome(r.o, "AttributeError")
            ELSE Outcome(add_child(r.o, r.o[current_stream].parent, new_parent),
                         "ok")

\* PriorityTree.reprioritize, from "current_stream.parent.remove_child" on
Reattach(o, new_parent, current_stream, exclusive) ==
    IF o[current_stream].parent = NoStream THEN Outcome(o, "AttributeError")
    ELSE LET r == remove_child(o, o[current_stream].parent, current_stream,
                               FALSE)
         IN IF r.err # "ok" THEN r
            ELSE IF exclusive
            THEN Outcome(add_child_exclusive(r.o, new_parent, current_stream),
                         "ok")
            ELSE Outcome(add_child(r.o, new_parent, current_stream), "ok")

\* PriorityTree.reprioritize
reprioritize(o, st, stream_id, depends_on, weight, exclusive) ==
    IF ~Has(st, stream_id) THEN Result(o, st, "MissingStreamError", None)
    ELSE IF ~Has(st, IF Falsy(depends_on) THEN 0 ELSE depends_on)
    THEN Result(o, st, "KeyError", None)
    ELSE
    LET current_stream == st[stream_id]
        new_parent == st[IF Falsy(depends_on) THEN 0 ELSE depends_on]
        cycle == IF Falsy(depends_on) THEN "False"
                 ELSE stream_cycle(o, new_parent, current_stream)
        o1 == [o EXCEPT ![current_stream].weight = weight]
        r1 == IF cycle = "True" THEN CycleRepair(o1, new_parent, current_stream)
              ELSE Outcome(o1, "ok")
        r2 == IF r1.err # "ok" THEN r1
              ELSE Reattach(r1.o, new_parent, current_stream, exclusive)
    IN IF cycle \notin {"True", "False"} THEN Result(o, st, cycle, None)
       ELSE Result(r2.o, st, r2.err, None)

\* remove_stream without the try/except around the pop: a bare KeyError
remove_stream_keyerror(o, st, stream_id) ==
    IF ~Has(st, stream_id) THEN Result(o, st, "KeyError", None)
    ELSE LET child == st[stream_id]
             st1 == [st EXCEPT ![stream_id] = NoStream]
             parent == o[child].parent
         IN IF parent = NoStream THEN Result(o, st1, "AttributeError", None)
            ELSE LET r == remove_child(o, parent, child, TRUE)
                 IN Result(r.o, st1, r.err, None)

\* PriorityTree.remove_stream
remove_stream(o, st, stream_id) ==
    IF ~Has(st, stream_id) THEN Result(o, st, "MissingStreamError", None)
    ELSE LET child == st[stream_id]
             st1 == [st EXCEPT ![stream_id] = NoStream]
             parent == o[child].parent
         IN IF parent = NoStream THEN Result(o, st1, "AttributeError", None)
            ELSE LET r == remove_child(o, parent, child, TRUE)
                 IN Result(r.o, st1, r.err, None)

\* PriorityTree.block
block(o, st, stream_id) ==
    IF ~Has(st, stream_id) THEN Result(o, st, "MissingStreamError", None)
    ELSE Result([o EXCEPT ![st[stream_id]].active = FALSE], st, "ok", None)

\* PriorityTree.unblock
unblock(o, st, stream_id) ==
    IF ~Has(st, stream_id) THEN Result(o, st, "MissingStreamError", None)
    ELSE Result([o EXCEPT ![st[stream_id]].active = TRUE], st, "ok", None)

\* PriorityTree.__next__
next(o, st) ==
    LET r == schedule(o, RootHandle)
    IN IF r.err = "Empty" THEN Result(r.o, st, "DeadlockError", None)
       ELSE Result(r.o, st, r.err, r.ret)

\* ------------------------------------------------------------ actions
\* the record of a public call
Call(op, stream_id, depends_on, exclusive, r) ==
    [op |-> op, stream_id |-> stream_id, depends_on |-> depends_on,
     exclusive |-> exclusive, err |-> r.err, ret |-> r.ret,
     effect |-> (r.o # objs \/ r.st # streams)]

\* The driver goes on after a call that returned or raised, not after one
\* that ran into the endless loop of remove_child.  A call that left the
\* tree as it was is recorded and not continued: the calls that can follow
\* it are those that can follow the state before it.
Returned(limit) == last.err # "NoReturn" /\ last.effect /\ calls < limit

\* The tree after the driver has opened streams 1, 2 and 3, each one
\* depending on the one before: 0 -> 1 -> 2 -> 3.
InitChain ==
    LET a == insert_stream(InitObjs, InitStreams, 1, None, 96, FALSE)
        b == insert_stream(a.o, a.st, 2, 1, 96, FALSE)
    IN insert_stream(b.o, b.st, 3, 2, 96, FALSE)

\* the tally before any call of next()
NoneServed == [i \in Ids |-> 0]

\* the tally after a call of next() with outcome r
Tally(tally, r) ==
    IF r.err = "ok" /\ r.ret \in DOMAIN tally
    THEN [tally EXCEPT ![r.ret] = @ + 1] ELSE tally

\* A run starts from the empty tree or from the chain.
Init ==
    /\ \/ objs = InitObjs /\ streams = InitStreams
       \/ objs = InitChain.o /\ streams = InitChain.st
    /\ last = [op |-> "init", stream_id |-> None, depends_on |-> None,
               exclusive |-> FALSE, err |-> "ok", ret |-> None,
               effect |-> TRUE]
    /\ calls = 0
    /\ served = NoneServed
    /\ pops = <<>>
    /\ toggles = 0

Apply(op, stream_id, depends_on, exclusive, r) ==
    /\ objs' = r.o
    /\ streams' = r.st
    /\ last' = Call(op, stream_id, depends_on, exclusive, r)
    /\ calls' = IF r.o # objs \/ r.st # streams THEN calls + 1 ELSE calls
    /\ UNCHANGED <<served, pops, toggles>>

\* The driver opens streams in increasing order of id (RFC 7540 section
\* 5.1.1): the id of a new stream is the one after the largest id ever
\* given to a Stream object.  An id that is in _streams may be offered
\* again at any time.
FreshId(o) == 1 + CHOOSE m \in {o[h].stream_id : h \in 1..Len(o)} :
                     \A h \in 1..Len(o) : o[h].stream_id <= m

InsertStream(limit) ==
    /\ Returned(limit)
    /\ \E id \in Ids, dep \in DependsOn, w \in Weights, ex \in BOOLEAN :
           LET r == insert_stream(objs, streams, id, dep, w, ex)
           IN /\ Has(streams, id) \/ id = FreshId(objs)
              /\ Apply("insert_stream", id, dep, ex, r)

\* The driver leaves reprioritize's weight at its default.
Reprioritize(limit) ==
    /\ Returned(limit)
    /\ \E id \in Ids, dep \in DependsOn, ex \in BOOLEAN :
           Apply("reprioritize", id, dep, ex,
                 reprioritize(objs, streams, id, dep, DefaultWeight, ex))

RemoveStream(limit) ==
    /\ Returned(limit)
    /\ \E id \in Ids :
           Apply("remove_stream", id, None, FALSE,
                 remove_stream(objs, streams, id))

Block(limit) ==
    /\ Returned(limit)
    /\ \E id \in Ids :
           Apply("block", id, None, FALSE, block(objs, streams, id))

Unblock(limit) ==
    /\ Returned(limit)
    /\ \E id \in Ids :
           Apply("unblock", id, None, FALSE, unblock(objs, streams, id))

NextStream(limit) ==
    /\ Returned(limit)
    /\ Apply("next", None, None, FALSE, next(objs, streams))

Next ==
    \/ InsertStream(MaxCalls)
    \/ Reprioritize(MaxCalls)
    \/ RemoveStream(MaxCalls)
    \/ Block(MaxCalls)
    \/ Unblock(MaxCalls)
    \/ NextStream(MaxCalls)

Spec == Init /\ [][Next]_vars

NextDeep ==
    \/ InsertStream(MaxDeep)
    \/ Reprioritize(MaxDeep)
    \/ RemoveStream(MaxDeep)
    \/ Block(MaxDeep)
    \/ Unblock(MaxDeep)
    \/ NextStream(MaxDeep)

\* the same driver, allowed one more call
SpecDeep == Init /\ [][NextDeep]_vars

\* ---------------------------------------------------- the sharing driver
\* A fresh tree holding streams 1 (weight 16) and 3 (weight 32), both
\* children of the root.
InitShare ==
    LET a == insert_stream(InitObjs, InitStreams, 1, None, 16, FALSE)
    IN insert_stream(a.o, a.st, 3, None, 32, FALSE)

ShareInit ==
    /\ objs = InitShare.o /\ streams = InitShare.st
    /\ last = [op |-> "init", stream_id |-> None, depends_on |-> None,
               exclusive |-> FALSE, err |-> "ok", ret |-> None,
               effect |-> TRUE]
    /\ calls = 0
    /\ served = NoneServed
    /\ pops = <<>>
    /\ toggles = 0

\* The driver calls next() and nothing else; calls counts the calls.
ShareNext ==
    LET r == next(objs, streams)
    IN /\ calls < MaxShare
       /\ objs' = r.o
       /\ streams' = r.st
       /\ last' = Call("next", None, None, FALSE, r)
       /\ calls' = calls + 1
       /\ served' = Tally(served, r)
       /\ UNCHANGED <<pops, toggles>>

SpecShare == ShareInit /\ [][ShareNext]_vars

\* ------------------------------------------------- the scheduling driver
\* The weights the scheduling driver opens streams with: the two ends of
\* the legal range 1..256 and two weights that do not divide the credit.
SchedWeights == {1, 3, 96, 256}

\* A tree of three streams built on a new PriorityTree: stream 1 under the
\* root, stream 2 under d2, stream 3 under d3 (exclusively if ex3).
SchedTree(w1, w2, w3, d2, d3, ex3) ==
    LET a == insert_stream(InitObjs, InitStreams, 1, None, w1, FALSE)
        b == insert_stream(a.o, a.st, 2, d2, w2, FALSE)
    IN insert_stream(b.o, b.st, 3, d3, w3, ex3)

\* The weights are given to the three streams in four rotations.
SchedInit ==
    /\ \E ws \in {<<96, 1, 3>>, <<3, 96, 256>>, <<256, 3, 96>>, <<1, 256, 3>>},
          d2 \in {None, 1}, d3 \in {0, 1, 2}, ex3 \in BOOLEAN :
           LET t == SchedTree(ws[1], ws[2], ws[3], d2, d3, ex3)
           IN /\ {ws[1], ws[2], ws[3]} \subseteq SchedWeights
              /\ objs = t.o /\ streams = t.st
              /\ pops = [h \in 1..Len(t.o) |-> 0]
    /\ last = [op |-> "init", stream_id |-> None, depends_on |-> None,
               exclusive |-> FALSE, err |-> "ok", ret |-> None,
               effect |-> TRUE]
    /\ calls = 0
    /\ served = NoneServed
    /\ toggles = 0

\* the virtual time of the entry of h in its parent's child queue
Level(o, h) ==
    LET queue == o[o[h].parent].child_queue
    IN queue[CHOOSE j \in 1..Len(queue) : queue[j][2] = h][1]

\* A call of schedule popped and re-enqueued h between o and o2: the
\* finally block gives h a new deficit when its step is 0 and a new
\* virtual time otherwise, and nothing else changes either.
Repopped(o, o2, h) ==
    \/ o2[h].deficit # o[h].deficit
    \/ Level(o2, h) # Level(o, h)

\* next(); calls counts the calls.
SchedNext ==
    LET r == next(objs, streams)
    IN /\ calls < MaxSched
       /\ objs' = r.o
       /\ streams' = r.st
       /\ last' = Call("next", None, None, FALSE, r)
       /\ calls' = calls + 1
       /\ served' = Tally(served, r)
       /\ pops' = [h \in DOMAIN pops |->
                      IF h # RootHandle /\ Repopped(objs, r.o, h)
                      THEN pops[h] + 1 ELSE pops[h]]
       /\ UNCHANGED toggles

\* block(id) on an active stream other than the root
SchedBlock ==
    \E id \in Ids \ {0} :
        LET r == block(objs, streams, id)
        IN /\ toggles < MaxToggles
           /\ Has(streams, id) /\ objs[streams[id]].active
           /\ objs' = r.o
           /\ streams' = r.st
           /\ last' = Call("block", id, None, FALSE, r)
           /\ toggles' = toggles + 1
           /\ UNCHANGED <<calls, served, pops>>

\* unblock(id) on a blocked stream other than the root
SchedUnblock ==
    \E id \in Ids \ {0} :
        LET r == unblock(objs, streams, id)
        IN /\ toggles < MaxToggles
           /\ Has(streams, id) /\ ~objs[streams[id]].active
           /\ objs' = r.o
           /\ streams' = r.st
           /\ last' = Call("unblock", id, None, FALSE, r)
           /\ toggles' = toggles + 1
           /\ UNCHANGED <<calls, served, pops>>

NextSched == SchedNext \/ SchedBlock \/ SchedUnblock

SpecSched == SchedInit /\ [][NextSched]_vars

\* ------------------------------------------------------ the fair driver
\* The driver of Spec, making only calls that return and change the tree,
\* and calling next() again and again for as long as it runs: next() is
\* called under weak fairness.  A call of next() that leaves the tree as
\* it is (an exception raised before anything is re-enqueued) leaves the
\* state as it is however often it is repeated.
LiveCall(op, stream_id, depends_on, exclusive, r) ==
    /\ calls < MaxCalls
    /\ r.err # "NoReturn"
    /\ r.o # objs \/ r.st # streams
    /\ Apply(op, stream_id, depends_on, exclusive, r)

LiveInsert ==
    \E dep \in DependsOn, w \in Weights, ex \in BOOLEAN :
        LiveCall("insert_stream", FreshId(objs), dep, ex,
                 insert_stream(objs, streams, FreshId(objs), dep, w, ex))

LiveReprioritize ==
    \E id \in Ids, dep \in DependsOn, ex \in BOOLEAN :
        LiveCall("reprioritize", id, dep, ex,
                 reprioritize(objs, streams, id, dep, DefaultWeight, ex))

LiveRemove ==
    \E id \in Ids :
        LiveCall("remove_stream", id, None, FALSE,
                 remove_stream(objs, streams, id))

LiveBlock ==
    \E id \in Ids :
        LiveCall("block", id, None, FALSE, block(objs, streams, id))

LiveUnblock ==
    \E id \in Ids :
        LiveCall("unblock", id, None, FALSE, unblock(objs, streams, id))

LiveNext ==
    /\ calls < MaxCalls
    /\ Apply("next", None, None, FALSE, next(objs, streams))

NextLive ==
    \/ LiveInsert
    \/ LiveReprioritize
    \/ LiveRemove
    \/ LiveBlock
    \/ LiveUnblock
    \/ LiveNext

SpecLive == Init /\ [][NextLive]_vars /\ WF_vars(LiveNext)

\* ------------------------------------------------------------- claims
\* the elements of a sequence
Range(s) == {s[i] : i \in 1..Len(s)}

\* the Stream objects _streams holds
Live(st) == {st[i] : i \in {j \in DOMAIN st : st[j] # NoStream}}

\* the streams with an entry in a child queue
Queued(queue) == {e[2] : e \in Range(queue)}

RECURSIVE Reaches(_, _, _)
\* following parent links from h reaches the root within n hops
Reaches(o, h, n) ==
    IF h = RootHandle THEN TRUE
    ELSE IF n = 0 \/ h = NoStream THEN FALSE
    ELSE Reaches(o, o[h].parent, n - 1)

RECURSIVE Ancestors(_, _, _)
\* the objects met by following parent links from h, at most n hops
Ancestors(o, h, n) ==
    IF n = 0 \/ o[h].parent = NoStream THEN {}
    ELSE {o[h].parent} \cup Ancestors(o, o[h].parent, n - 1)

\* the step just taken was a call of op
Called(op) == last'.op = op

\* the tree is as it was before the step
TreeUnchanged == objs' = objs /\ streams' = streams

\* C1: after any sequence of public calls, _streams still maps id 0 to the
\* root stream and the root stream is inactive.
C1_RootKept ==
    /\ streams[0] = RootHandle
    /\ ~objs[RootHandle].active

\* C2: every stream in _streams other than the root reaches the root by
\* parent links in fewer than |_streams| hops.
C2_ReachesRoot ==
    \A h \in Live(streams) \ {RootHandle} :
        Reaches(objs, h, Cardinality(Live(streams)) - 1)

\* C3: for every stream p in _streams, the streams in p.children are
\* exactly the streams with an entry in p.child_queue.
C3_ChildrenAreQueued ==
    \A p \in Live(streams) :
        Range(objs[p].children) = Queued(objs[p].child_queue)

\* C4: whenever next() returns a stream id, the id is not 0 and the stream
\* _streams holds under that id is active at the time of the call.
C4_NextReturnsActive ==
    [][(Called("next") /\ last'.err = "ok") =>
          /\ last'.ret # 0
          /\ Has(streams, last'.ret)
          /\ objs[streams[last'.ret]].active]_vars

\* C5: next() raises DeadlockError if and only if no stream in _streams
\* other than the root is active, and returns a stream id otherwise.
C5_DeadlockIffNoneActive ==
    [][Called("next") =>
          LET none_active == \A h \in Live(streams) \ {RootHandle} :
                                 ~objs[h].active
          IN /\ (last'.err = "DeadlockError") <=> none_active
             /\ ~none_active => last'.err = "ok"]_vars

\* C6: the stream next() returns is active and every proper ancestor of
\* it, following parent links, is inactive.
C6_NextReturnsEligible ==
    [][(Called("next") /\ last'.err = "ok") =>
          /\ Has(streams, last'.ret)
          /\ objs[streams[last'.ret]].active
          /\ \A a \in Ancestors(objs, streams[last'.ret], Len(objs)) :
                 ~objs[a].active]_vars

\* C7: insert_stream with an id already in _streams (id 0 included) raises
\* DuplicateStreamError and leaves the whole tree as it was.
C7_DuplicateRejected ==
    [][(Called("insert_stream") /\ Has(streams, last'.stream_id)) =>
          /\ last'.err = "DuplicateStreamError"
          /\ TreeUnchanged]_vars

\* C7 witness: a duplicate insert of a stream other than the root was
\* rejected in a tree of several streams.
C7_Witness ==
    /\ last.op = "insert_stream"
    /\ last.err = "DuplicateStreamError"
    /\ last.stream_id # 0
    /\ Cardinality(Live(streams)) >= 3

\* C8: remove_stream, block, unblock and reprioritize with a target id
\* that is not in _streams raise MissingStreamError and leave the tree as
\* it was.
C8_MissingTargetRejected ==
    [][(/\ last'.op \in {"remove_stream", "block", "unblock", "reprioritize"}
        /\ ~Has(streams, last'.stream_id)) =>
          /\ last'.err = "MissingStreamError"
          /\ TreeUnchanged]_vars

\* C8 witness: remove_stream was rejected for a stream that had been in
\* the tree and was removed before.
C8_Witness ==
    /\ last.op = "remove_stream"
    /\ last.err = "MissingStreamError"
    /\ \E h \in 1..Len(objs) : objs[h].stream_id = last.stream_id

\* C9: insert_stream and reprioritize with a depends_on naming a stream
\* that is not in _streams raise MissingStreamError and leave the tree as
\* it was.
C9_MissingParentRejected ==
    [][(/\ \/ Called("insert_stream") /\ ~Has(streams, last'.stream_id)
           \/ Called("reprioritize") /\ Has(streams, last'.stream_id)
        /\ last'.depends_on # None
        /\ ~Has(streams, last'.depends_on)) =>
          /\ last'.err = "MissingStreamError"
          /\ TreeUnchanged]_vars

\* C10: after a successful insert_stream(x, depends_on=p, exclusive=True),
\* p has exactly one child, x; every stream that was a child of p has x as
\* its parent and is in x's children and child queue; x is in _streams.
C10_ExclusiveInsert ==
    [][(Called("insert_stream") /\ last'.err = "ok" /\ last'.exclusive) =>
          LET p == streams[last'.depends_on]
              x == streams'[last'.stream_id]
          IN /\ Has(streams', last'.stream_id)
             /\ objs'[x].stream_id = last'.stream_id
             /\ objs'[p].children = <<x>>
             /\ Len(objs'[p].child_queue) = 1
             /\ Queued(objs'[p].child_queue) = {x}
             /\ \A c \in Range(objs[p].children) :
                    /\ objs'[c].parent = x
                    /\ c \in Range(objs'[x].children)
                    /\ c \in Queued(objs'[x].child_queue)]_vars

\* C10 witness: an exclusive insert has put a new stream above two or
\* more former children of its parent.
C10_Witness ==
    /\ last.op = "insert_stream"
    /\ last.err = "ok"
    /\ last.exclusive
    /\ Len(objs[streams[last.stream_id]].children) >= 2

\* the stream ids of h's children, in list order
ChildIds(o, h) == [i \in 1..Len(o[h].children) |-> o[o[h].children[i]].stream_id]

\* the entries of a child queue as <<virtual time, stream id, multiplicity>>
Entries(o, queue) ==
    {<<e[1], o[e[2]].stream_id,
       Cardinality({j \in 1..Len(queue) :
                       /\ queue[j][1] = e[1]
                       /\ o[queue[j][2]].stream_id = o[e[2]].stream_id})>> :
        e \in Range(queue)}

\* the ids that are not in _streams
Absent(st) == {x \in Ids : ~Has(st, x)}

\* C11: in every reachable state, for p in _streams and x not in _streams,
\* insert_stream(x, depends_on=p) followed at once by remove_stream(x)
\* leaves _streams, p's children, p's queue entries with their virtual
\* times and p's last_weight as they were; a stream y inserted beneath x
\* between the two calls ends up a child of p.
C11_InsertRemoveRoundTrip ==
    \A p \in Ids \ Absent(streams), x \in Absent(streams) :
        LET h == streams[p]
            a == insert_stream(objs, streams, x, p, DefaultWeight, FALSE)
            b == remove_stream(a.o, a.st, x)
        IN /\ a.err = "ok" /\ b.err = "ok"
           /\ b.st = streams
           /\ ChildIds(b.o, h) = ChildIds(objs, h)
           /\ Entries(b.o, b.o[h].child_queue) = Entries(objs, objs[h].child_queue)
           /\ b.o[h].last_weight = objs[h].last_weight
           /\ \A y \in Absent(a.st) :
                  LET c == insert_stream(a.o, a.st, y, x, DefaultWeight, FALSE)
                      d == remove_stream(c.o, c.st, x)
                  IN /\ c.err = "ok" /\ d.err = "ok"
                     /\ d.o[c.st[y]].parent = h
                     /\ c.st[y] \in Range(d.o[h].children)
                     /\ c.st[y] \in Queued(d.o[h].child_queue)

\* the step just taken was reprioritize(x, depends_on=d) with both streams
\* in _streams, x not the root and d a proper descendant of x by parent links
CyclicCall ==
    /\ Called("reprioritize")
    /\ Has(streams, last'.stream_id)
    /\ last'.depends_on # None
    /\ Has(streams, last'.depends_on)
    /\ streams[last'.stream_id] # RootHandle
    /\ streams[last'.depends_on] # streams[last'.stream_id]
    /\ streams[last'.stream_id] \in
           Ancestors(objs, streams[last'.depends_on], Len(objs))

\* h is in p's children list and has an entry in p's child queue
ChildOf(o, h, p) ==
    /\ o[h].parent = p
    /\ h \in Range(o[p].children)
    /\ h \in Queued(o[p].child_queue)

\* C12: after reprioritize(x, depends_on=d) with d a proper descendant of
\* x, d is a child of x's former parent, x is a child of d, and the streams
\* that lay on the path between x and d are still beneath x, each under the
\* parent it had.
C12_CyclicReprioritize ==
    [][CyclicCall =>
          LET x == streams[last'.stream_id]
              d == streams[last'.depends_on]
              path == {m \in Ancestors(objs, d, Len(objs)) \ {x} :
                          x \in Ancestors(objs, m, Len(objs))}
          IN /\ last'.err = "ok"
             /\ ChildOf(objs', d, objs[x].parent)
             /\ ChildOf(objs', x, d)
             /\ \A m \in path :
                    /\ ChildOf(objs', m, objs[m].parent)
                    /\ x \in Ancestors(objs', m, Len(objs'))]_vars

\* C13: remove_stream(x) for a stream x with parent p succeeds and leaves
\* x out of _streams and out of p's children and child queue; every former
\* child of x has parent p, is in p's children and is enqueued at p's
\* last_weight; every other entry of p's queue is kept with its virtual
\* time.
C13_RemoveRehomes ==
    [][(/\ Called("remove_stream")
        /\ Has(streams, last'.stream_id)
        /\ objs[streams[last'.stream_id]].parent # NoStream) =>
          LET x == streams[last'.stream_id]
              p == objs[x].parent
          IN /\ last'.err = "ok"
             /\ ~Has(streams', last'.stream_id)
             /\ x \notin Range(objs'[p].children)
             /\ x \notin Queued(objs'[p].child_queue)
             /\ \A c \in Range(objs[x].children) :
                    /\ objs'[c].parent = p
                    /\ c \in Range(objs'[p].children)
                    /\ <<objs'[p].last_weight, c>> \in Range(objs'[p].child_queue)
             /\ \A e \in Range(objs[p].child_queue) :
                    e[2] # x => e \in Range(objs'[p].child_queue)]_vars

\* C14: in a fresh tree holding only the active streams 1 (weight 16) and
\* 3 (weight 32) under the root, with nothing but next() called, the first
\* call returns 1, and after every 3k calls (k >= 1) stream 1 has been
\* returned exactly k times and stream 3 exactly 2k times: 16 and 32 times
\* after 48 calls.
C14_WeightedSharing ==
    /\ calls >= 1 => last.err = "ok"
    /\ calls = 1 => last.ret = 1 /\ served[1] = 1 /\ served[3] = 0
    /\ (calls >= 3 /\ calls % 3 = 0) =>
           /\ served[1] = calls \div 3
           /\ served[3] = 2 * (calls \div 3)
    /\ calls = 48 => served[1] = 16 /\ served[3] = 32

\* C14 witness: 48 calls of next() have been made, the last one returning
\* stream 3, and both streams have been served.
C14_Witness ==
    /\ calls = 48
    /\ last.op = "next" /\ last.ret = 3
    /\ served[1] > 0 /\ served[3] > served[1]

\* the step just taken was an exclusive insert_stream or reprioritize that
\* reached add_child_exclusive on the object h
ExclusiveBeneath(h) ==
    /\ last'.op \in {"insert_stream", "reprioritize"}
    /\ last'.exclusive
    /\ LET dep == IF Falsy(last'.depends_on) THEN 0 ELSE last'.depends_on
       IN Has(streams, dep) /\ h = streams[dep]

C16_DeficitExact ==
    [][\A h \in DOMAIN pops \ {RootHandle} :
           LET w == objs'[h].weight
               k == pops'[h]
           IN /\ w = objs[h].weight /\ w \in 1..Credit
              /\ Level(objs', h) = (Credit * k) \div w
              /\ objs'[h].deficit = (Credit * k) % w
              /\ 0 <= objs'[h].deficit /\ objs'[h].deficit < w
              /\ pops'[h] > pops[h] =>
                     /\ pops'[h] = pops[h] + 1
                     /\ Level(objs', h) >= Level(objs, h) + 1]_vars

\* C16 witness: a stream whose weight does not divide the credit has been
\* popped and re-enqueued five times or more, more often than next() has
\* returned it (it was blocked at some of its turns), and carries a
\* deficit.
C16_Witness ==
    \E h \in DOMAIN pops \ {RootHandle} :
        /\ pops[h] >= 5
        /\ objs[h].deficit > 0
        /\ served[objs[h].stream_id] > 0
        /\ served[objs[h].stream_id] < pops[h]

\* the stream id is in _streams and active, and every proper ancestor of
\* it, following parent links, is inactive
Eligible(id) ==
    /\ Has(streams, id)
    /\ objs[streams[id]].active
    /\ \A a \in Ancestors(objs, streams[id], Len(objs)) : ~objs[a].active

\* C17: with all weights in 1..256, a stream that stays active while all
\* its proper ancestors stay inactive is eventually returned by next(), as
\* long as no stream is inserted, removed or reprioritised and the driver
\* goes on calling next().
C17_NoStarvation ==
    \A id \in Ids \ {0} :
        []<>(\/ ~Eligible(id)
             \/ last.op \in {"insert_stream", "remove_stream", "reprioritize"}
             \/ last.op = "next" /\ last.err = "ok" /\ last.ret = id
             \/ calls >= MaxCalls)

\* C18: in a cyclic reprioritize(x, depends_on=d) every stream that was a
\* child of d before the call still has d as its parent and is still in
\* d's children after it.
C18_ChildrenTravel ==
    [][CyclicCall =>
          LET d == streams[last'.depends_on]
          IN \A c \in Range(objs[d].children) :
                 /\ objs'[c].parent = d
                 /\ c \in Range(objs'[d].children)]_vars

RECURSIVE Closure(_, _, _)
\* the objects met from the objects in set by following children lists and
\* child queues, at most n levels down
Closure(o, set, n) ==
    LET more == set \cup UNION {Range(o[h].children) \cup Queued(o[h].child_queue) :
                                   h \in set}
    IN IF n = 0 \/ more = set THEN set ELSE Closure(o, more, n - 1)

\* the objects reachable from the root
Nodes(o) == Closure(o, {RootHandle}, Len(o))

\* the places <<node, position>> at which c stands in a children list of a
\* node reachable from the root
ListedAt(o, c) ==
    UNION {{<<n, i>> : i \in {j \in 1..Len(o[n].children) : o[n].children[j] = c}} :
              n \in Nodes(o)}

\* the places <<node, position>> at which c has an entry in a child queue
\* of a node reachable from the root
QueuedAt(o, c) ==
    UNION {{<<n, i>> : i \in {j \in 1..Len(o[n].child_queue) :
                                 o[n].child_queue[j][2] = c}} :
              n \in Nodes(o)}

\* C19: after any sequence of public calls, every stream of _streams other
\* than the root stands exactly once in the children lists, and exactly
\* once in the child queues, of the nodes reachable from the root, and
\* that under the node its parent link names; every member of such a list
\* or queue is a stream of _streams whose parent link names that node.
C19_ParentChildConsistent ==
    /\ \A c \in Live(streams) \ {RootHandle} :
           /\ Cardinality(ListedAt(objs, c)) = 1
           /\ Cardinality(QueuedAt(objs, c)) = 1
           /\ \A place \in ListedAt(objs, c) \cup QueuedAt(objs, c) :
                  place[1] = objs[c].parent
    /\ \A n \in Nodes(objs) :
           \A c \in Range(objs[n].children) \cup Queued(objs[n].child_queue) :
               /\ c \in Live(streams)
               /\ objs[c].parent = n

\* C20: next() never returns an id that is not in _streams, and after any
\* call no node reachable from the root lists a Stream object that is not
\* in _streams, in its children or in its child queue: a removed stream is
\* gone from every list and is not returned again.
C20_RemovedIsGone ==
    [][/\ (Called("next") /\ last'.err = "ok") => Has(streams', last'.ret)
       /\ \A n \in Nodes(objs') :
              \A c \in Range(objs'[n].children) \cup Queued(objs'[n].child_queue) :
                  c \in Live(streams')]_vars

====
